---- MODULE Spec2Model ----
(***************************************************************************)
(* Admission-controlled screenshot job queue with a bounded pool of        *)
(* browser sessions (vibeengineer/website-screenshot).                     *)
(*                                                                         *)
(* The repository holds parallel implementations of the subsystem:         *)
(*   "DO"      class ScreenshotBrowserDO of                                *)
(*             src/src/browser-durable-object.ts, lines 600-867            *)
(*             (kickoffQueue / getSession / executeJob / alarm);           *)
(*   "QM"      class ScreenshotQueueManager of src/src/queue.ts, lines     *)
(*             16-134 (processQueue / removeStaleJobs / executeJob).       *)
(*   "Legacy"  the earlier class ScreenshotBrowserDO of                    *)
(*             src/src/browser-durable-object.ts, lines 35-586             *)
(*             (processQueue / getAvailableSession /                       *)
(*             launchNewSessionWithTimeout / _takeScreenshot / alarm).     *)
(* A behaviour runs one of them, chosen by Init.                           *)
(* Every implementation is single-threaded and cooperative: a handler runs *)
(* without interruption up to its next `await` on an external operation    *)
(* (browser I/O, a timer).  One action of this module is one such          *)
(* uninterrupted run, including every synchronous call it makes.           *)
(*                                                                         *)
(* Scheduling points.  An `await` of a value that is already settled       *)
(* (`await undefined`, a promise of an async function that returned or     *)
(* threw without awaiting) resumes in the same microtask checkpoint: no    *)
(* other event is delivered in between.  An `await` of a Durable Object    *)
(* storage operation (ctx.storage.put / setAlarm, inside saveSessionsMeta) *)
(* closes the object's input gate: the runtime delivers no other event to  *)
(* the object until the operation completes.  Neither is a scheduling      *)
(* point; the awaits of browser operations (newPage, close, launch, the    *)
(* capture) and of timers are.                                             *)
(*                                                                         *)
(* Time.  The code reads the clock only in the differences                 *)
(* Date.now() - enqueueTime and Date.now() - lastUsed.  The model stores   *)
(* these differences (fields `waited` and `idle`), advanced by Tick and    *)
(* saturated one tick above the timeout they are compared with.            *)
(***************************************************************************)
EXTENDS Integers, Sequences, FiniteSets, TLC

(* ------------------------------ bounds -------------------------------- *)
MaxJobs == 3                 \* requests submitted in one behaviour
MaxSessionIds == 5           \* session identities (restored or launched)
MaxPasses == 2               \* dispatcher activations representable at once
MaxRestored == 1             \* session metadata entries found in storage
MaxFairJobs == 2             \* requests submitted in one fair behaviour
QUEUE_TIMEOUT_MS == 1        \* queue residence timeout, in clock ticks
SESSION_TTL_MS == 1          \* idle session time to live, in clock ticks
QUEUE_TIMEOUT == 1           \* QM: queue residence timeout, in clock ticks
QM_MAX_CONCURRENT_BROWSER_SESSIONS == 1   \* QM: capacity (10 in constants.ts)
concurrency == 1             \* createQueueManager: PQueue concurrency
timeout == 2                 \* createQueueManager: timeout, in clock ticks
MaxLegacyJobs == 2           \* Legacy: requests submitted in one behaviour
MaxLegacySessionIds == 3     \* Legacy: session identities

(* ------------------------- program constants -------------------------- *)
MAX_CONCURRENT_BROWSER_SESSIONS == 2
MAX_SESSIONS == 2
MAX_RETRIES == 3

JobIds == 1..MaxJobs
SessionIds == 1..MaxSessionIds
PassIds == 1..MaxPasses
Statuses == {"idle", "busy", "launching", "terminating", "failed"}

VARIABLES
  impl,         \* which implementation this behaviour runs
  sessions,     \* DO.sessions: Map id -> [status, browser, idle]
  queue,        \* DO.queue: sequence of [id, waited]
  pending,      \* DO.pending / QM.pendingRequests: ids with {resolve, reject}
  processing,   \* DO.processing
  pass,         \* activations of the dispatcher: [pc, sid, head, attempt]
  runner,       \* activations of executeJob, per job: [pc, sid]
  capture,      \* per job, the takeScreenshot promise: none/running/done
  settled,      \* per job, the resolve/reject calls made on its handle
  lost,         \* jobs for which resolve/reject found no pending entry
  nextSid,      \* next fresh session identity (crypto.randomUUID)
  nextJob,      \* next fresh job identity (crypto.randomUUID)
  coalesced,    \* a trigger hit the `processing` guard during this pass
  activeSessions, \* QM.activeSessions (a session id is identified with its job)
  timers,       \* QM: pending setTimeout(processQueue, 100) callbacks
  lateLaunch,   \* sessions whose puppeteer.launch outlives its timeout
  alarm,        \* activation of alarm(): [pc, ids, cur]
  alarmArmed,   \* ctx.storage alarm is set
  raceTimer,    \* createQueueManager: per job, ms since enqueue's setTimeout
                \* (-1: no callback of the job is waiting)
  activeBrowser \* keep-alive service: the shared connection (0: null)

vars == <<impl, sessions, queue, pending, processing, pass, runner, capture,
          settled, lost, nextSid, nextJob, coalesced, activeSessions, timers,
          lateLaunch, alarm, alarmArmed, raceTimer, activeBrowser>>

Min(S) == CHOOSE x \in S : \A y \in S : x <= y
Remove(f, k) == [x \in DOMAIN f \ {k} |-> f[x]]
Sat(n, cap) == IF n >= cap THEN cap + 1 ELSE n + 1

PassOff == [pc |-> "off", sid |-> 0, head |-> 0, attempt |-> 0]
RunnerNone == [pc |-> "none", sid |-> 0]
AlarmOff == [pc |-> "off", ids |-> {}, cur |-> 0]

(* The fields of `this` that the queue engine reads and writes, as a value *)
(* that the synchronous parts of a handler transform step by step.         *)
This ==
  [sessions |-> sessions, queue |-> queue, pending |-> pending,
   processing |-> processing, pass |-> pass, runner |-> runner,
   capture |-> capture, settled |-> settled, lost |-> lost, nextSid |-> nextSid,
   coalesced |-> coalesced, activeSessions |-> activeSessions,
   timers |-> timers, lateLaunch |-> lateLaunch, ok |-> TRUE]

Commit(D) ==
  \E d \in {D} :
     /\ d.ok
     /\ sessions' = d.sessions
     /\ queue' = d.queue
     /\ pending' = d.pending
     /\ processing' = d.processing
     /\ pass' = d.pass
     /\ runner' = d.runner
     /\ capture' = d.capture
     /\ settled' = d.settled
     /\ lost' = d.lost
     /\ nextSid' = d.nextSid
     /\ coalesced' = d.coalesced
     /\ activeSessions' = d.activeSessions
     /\ timers' = d.timers
     /\ lateLaunch' = d.lateLaunch

(* pending.get(id)?.resolve(..) / ?.reject(..): the call is made only when *)
(* the entry exists.                                                       *)
Settle(D, j, kind) ==
  IF j \in D.pending
  THEN [D EXCEPT !.settled[j] = Append(@, kind)]
  ELSE [D EXCEPT !.lost = @ \cup {j}]

SetStatus(ss, s, st) ==
  IF s \in DOMAIN ss THEN [ss EXCEPT ![s].status = st] ELSE ss

Touch(ss, s) ==
  IF s \in DOMAIN ss THEN [ss EXCEPT ![s].idle = 0] ELSE ss

CloseBrowser(ss, s) ==
  IF s \in DOMAIN ss /\ ss[s].browser = "connected"
  THEN [ss EXCEPT ![s].browser = "closing"] ELSE ss

(* browser.connected: a handle on which close() was called still reads     *)
(* connected until the connection is gone.                                 *)
Connected(sess) == sess.browser \in {"connected", "closing"}

JobLimit == IF impl = "Legacy" THEN MaxLegacyJobs ELSE MaxJobs
IdLimit == IF impl = "Legacy" THEN MaxLegacySessionIds ELSE MaxSessionIds

QueueTimeout == IF impl = "QM" THEN QUEUE_TIMEOUT ELSE QUEUE_TIMEOUT_MS

IsStale_early(e) == e.waited >= QUEUE_TIMEOUT_MS

IsStale(e) == e.waited > QUEUE_TIMEOUT_MS

(* kickoffQueue, the inner `while`: drop stale heads.                      *)
RECURSIVE DropStale(_)
DropStale(D) ==
  IF D.queue # <<>> /\ IsStale(Head(D.queue))
  THEN LET stale == Head(D.queue)
           E == Settle([D EXCEPT !.queue = Tail(@)], stale.id, "queueTimeout")
       IN  DropStale([E EXCEPT !.pending = @ \ {stale.id}])
  ELSE D

(* kickoffQueue, `finally { this.processing = false }`.                    *)
ExitPass(D, p) ==
  [D EXCEPT !.processing = FALSE, !.pass[p] = PassOff, !.coalesced = FALSE]

GetSession_overCapacity(D, p, it) ==
  LET cand == {s \in DOMAIN D.sessions :
                 /\ s > it
                 /\ D.sessions[s].status = "idle"
                 /\ Connected(D.sessions[s])}
  IN  IF cand # {}
      THEN [D EXCEPT !.pass[p].pc = "probe", !.pass[p].sid = Min(cand)]
      ELSE IF Cardinality(DOMAIN D.sessions) > MAX_CONCURRENT_BROWSER_SESSIONS
      THEN ExitPass(D, p)
      ELSE [D EXCEPT
              !.sessions = @ @@ (D.nextSid :>
                  [status |-> "launching", browser |-> "null", idle |-> 0]),
              !.nextSid = @ + 1,
              !.pass[p].pc = "launching", !.pass[p].sid = D.nextSid]

(* getSession from the resumption of its iteration of                      *)
(* this.sessions.values() after the entry `it` to its next scheduling      *)
(* point: the probe of the next idle connected session, or the launch of   *)
(* a new session (entry set to launching and saved, puppeteer.launch       *)
(* started), or NoAvailableSessionError, on which kickoffQueue breaks.     *)
GetSession(D, p, it) ==
  LET cand == {s \in DOMAIN D.sessions :
                 /\ s > it
                 /\ D.sessions[s].status = "idle"
                 /\ Connected(D.sessions[s])}
  IN  IF cand # {}
      THEN [D EXCEPT !.pass[p].pc = "probe", !.pass[p].sid = Min(cand)]
      ELSE IF Cardinality(DOMAIN D.sessions) >= MAX_CONCURRENT_BROWSER_SESSIONS
      THEN ExitPass(D, p)
      ELSE [D EXCEPT
              !.sessions = @ @@ (D.nextSid :>
                  [status |-> "launching", browser |-> "null", idle |-> 0]),
              !.nextSid = @ + 1,
              !.pass[p].pc = "launching", !.pass[p].sid = D.nextSid]

(* kickoffQueue from the top of `while (true)` to the next scheduling      *)
(* point; `head` is the entry this.queue[0] that the stale test let pass.  *)
LoopTop(D, p) ==
  LET E == DropStale(D)
  IN  IF E.queue = <<>> THEN ExitPass(E, p)
      ELSE GetSession([E EXCEPT !.pass[p].head = Head(E.queue).id], p, 0)

(* executeJob from its call to the start of the capture: status busy,      *)
(* saved, withTimeout(takeScreenshot(..)) awaited.                         *)
StartJob(D, j, s) ==
  [D EXCEPT !.runner[j] = [pc |-> "capture", sid |-> s],
            !.capture[j] = "running",
            !.sessions = SetStatus(@, s, "busy")]

Admit_last(D, p, s) ==
  IF D.queue = <<>> THEN ExitPass(D, p)
  ELSE LoopTop(StartJob([D EXCEPT !.queue = SubSeq(@, 1, Len(@) - 1)],
                        D.queue[Len(D.queue)].id, s), p)

Admit_awaitsJob(D, p, s) ==
  IF D.queue = <<>> THEN ExitPass(D, p)
  ELSE ExitPass(StartJob([D EXCEPT !.queue = Tail(@)], Head(D.queue).id, s), p)

(* kickoffQueue after getSession returned session s: queue.shift(),        *)
(* executeJob not awaited, then the loop again.                            *)
Admit(D, p, s) ==
  IF D.queue = <<>> THEN ExitPass(D, p)
  ELSE LoopTop(StartJob([D EXCEPT !.queue = Tail(@)], Head(D.queue).id, s), p)

KickoffQueue_unguarded(D) ==
  LET free == {p \in PassIds : D.pass[p].pc = "off"}
  IN  IF free = {} THEN [D EXCEPT !.ok = FALSE]
      ELSE LoopTop([D EXCEPT !.processing = TRUE], Min(free))

(* kickoffQueue from its call to its first scheduling point.               *)
KickoffQueue(D) ==
  IF D.processing
  THEN [D EXCEPT !.coalesced = TRUE]
  ELSE LET free == {p \in PassIds : D.pass[p].pc = "off"}
       IN  IF free = {} THEN [D EXCEPT !.ok = FALSE]
           ELSE LoopTop([D EXCEPT !.processing = TRUE], Min(free))

ShouldClean_noTtl(sess, force) ==
  \/ force
  \/ sess.status = "terminating"
  \/ sess.status = "failed"
  \/ (sess.browser # "null" /\ ~Connected(sess))

ShouldClean_anyIdle(sess, force) ==
  \/ force
  \/ sess.status = "terminating"
  \/ sess.status = "failed"
  \/ sess.status = "idle"
  \/ (sess.browser # "null" /\ ~Connected(sess))

(* cleanupSession's test.                                                  *)
ShouldClean(sess, force) ==
  \/ force
  \/ sess.status = "terminating"
  \/ sess.status = "failed"
  \/ (sess.status = "idle" /\ sess.idle > SESSION_TTL_MS)
  \/ (sess.browser # "null" /\ ~Connected(sess))

FinishJob_keepsEntry(D, j, kind) ==
  LET s == D.runner[j].sid
      E == Settle(D, j, kind)
  IN  KickoffQueue([E EXCEPT !.sessions = Touch(SetStatus(@, s, "idle"), s),
                             !.runner[j] = [pc |-> "done", sid |-> 0]])

(* executeJob from the settlement of withTimeout to its end: resolve or    *)
(* reject, then the finally block (pending.delete, status idle, lastUsed,  *)
(* save, kickoffQueue).                                                    *)
FinishJob(D, j, kind) ==
  LET s == D.runner[j].sid
      E == Settle(D, j, kind)
  IN  KickoffQueue([E EXCEPT !.pending = @ \ {j},
                             !.sessions = Touch(SetStatus(@, s, "idle"), s),
                             !.runner[j] = [pc |-> "done", sid |-> 0]])

(* ------------------------------ Init ---------------------------------- *)
(* The constructor (of either ScreenshotBrowserDO class) restores the      *)
(* session metadata found in storage with browser: null and arms the       *)
(* alarm.                                                                  *)
StoredMetas ==
  {<<>>} \cup
  UNION {[1..k -> {m \in [status : Statuses, browser : {"null"},
                                idle : 0..(SESSION_TTL_MS + 1)] :
                         m.status # "idle" => m.idle = 0}] : k \in 1..MaxRestored}

Init ==
  /\ impl \in {"DO", "QM", "Legacy"}
  /\ \E stored \in StoredMetas :
       /\ impl = "QM" => stored = <<>>
       /\ sessions = stored
       /\ nextSid = Len(stored) + 1
  /\ queue = <<>>
  /\ pending = {}
  /\ processing = FALSE
  /\ pass = [p \in PassIds |-> PassOff]
  /\ runner = [j \in JobIds |-> RunnerNone]
  /\ capture = [j \in JobIds |-> "none"]
  /\ settled = [j \in JobIds |-> <<>>]
  /\ lost = {}
  /\ nextJob = 1
  /\ coalesced = FALSE
  /\ activeSessions = {}
  /\ timers = 0
  /\ lateLaunch = {}
  /\ alarm = AlarmOff
  /\ alarmArmed = (impl # "QM")
  /\ raceTimer = [j \in JobIds |-> -1]
  /\ activeBrowser = 0

(* ----------------------------- actions -------------------------------- *)
TakeScreenshotJob_unregistered(D, id) ==
  KickoffQueue([D EXCEPT !.queue = Append(@, [id |-> id, waited |-> 0])])

(* takeScreenshotJob: push, kickoffQueue (to its first scheduling point),  *)
(* then pending.set inside the Promise executor.                           *)
TakeScreenshotJob(D, id) ==
  LET E == KickoffQueue([D EXCEPT !.queue = Append(@, [id |-> id, waited |-> 0])])
  IN  [E EXCEPT !.pending = @ \cup {id}]

DO_takeScreenshotJob ==
  /\ impl = "DO"
  /\ nextJob <= MaxJobs
  /\ Commit(TakeScreenshotJob(This, nextJob))
  /\ nextJob' = nextJob + 1
  /\ UNCHANGED <<impl, activeBrowser, raceTimer, alarm, alarmArmed>>

(* The clock advances.  lastUsed is read by cleanupSession for an idle     *)
(* session only; a session is idle after it was busy or after a launch,    *)
(* and the launch assigns lastUsed, so the age is kept for idle and busy   *)
(* sessions.                                                               *)
Tick ==
  /\ impl = "QM" => ~processing
  /\ queue' = [i \in 1..Len(queue) |->
                 [queue[i] EXCEPT !.waited = Sat(@, QueueTimeout)]]
  /\ sessions' = [s \in DOMAIN sessions |->
                 IF sessions[s].status \in {"idle", "busy"}
                 THEN [sessions[s] EXCEPT !.idle = Sat(@, SESSION_TTL_MS)]
                 ELSE sessions[s]]
  /\ UNCHANGED <<impl, activeBrowser, raceTimer, pending, processing, pass, runner, capture, settled,
                 lost, nextSid, nextJob, coalesced, activeSessions, timers,
                 lateLaunch, alarm, alarmArmed>>

(* The remote browser of a session goes away.                              *)
BrowserDisconnects(s) ==
  /\ impl \in {"DO", "Legacy"}
  /\ s \in DOMAIN sessions
  /\ Connected(sessions[s])
  /\ sessions' = [sessions EXCEPT ![s].browser = "disconnected"]
  /\ UNCHANGED <<impl, activeBrowser, raceTimer, queue, pending, processing, pass, runner, capture,
                 settled, lost, nextSid, nextJob, coalesced, activeSessions,
                 timers, lateLaunch, alarm, alarmArmed>>

(* The health probe of a session (newPage() then close()) is still pending *)
(* HEALTH_CHECK_TIMEOUT_MS after it began.  The timer callback of the      *)
(* Legacy getAvailableSession only assigns healthCheckError; getSession    *)
(* has no timer.  Both go on awaiting the probe.                           *)
HealthCheckTimeoutElapses(p) ==
  /\ impl \in {"DO", "Legacy"}
  /\ pass[p].pc = "probe"
  /\ pass' = [pass EXCEPT ![p].pc = "probeLate"]
  /\ UNCHANGED <<impl, activeBrowser, raceTimer, sessions, queue, pending, processing, runner, capture,
                 settled, lost, nextSid, nextJob, coalesced, activeSessions,
                 timers, lateLaunch, alarm, alarmArmed>>

(* getSession: newPage() and close() of the probe succeeded: lastUsed,     *)
(* save, return s.  The probe can still succeed on a handle whose close()  *)
(* an alarm tick has requested meanwhile: its commands were sent first.    *)
ProbeOk(D, p) ==
  Admit([D EXCEPT !.sessions = Touch(@, D.pass[p].sid)], p, D.pass[p].sid)

DO_ProbeOk(p) ==
  /\ impl = "DO"
  /\ pass[p].pc \in {"probe", "probeLate"}
  /\ pass[p].sid \in DOMAIN sessions
  /\ Connected(sessions[pass[p].sid])
  /\ Commit(ProbeOk(This, p))
  /\ UNCHANGED <<impl, activeBrowser, raceTimer, nextJob, alarm, alarmArmed>>

(* getSession: the probe threw; cleanupSession(s.id, true) up to           *)
(* `await s.browser?.close()`.                                             *)
ProbeFail(D, p) ==
  LET s == D.pass[p].sid
  IN  IF s \notin DOMAIN D.sessions
      THEN GetSession(D, p, s)
      ELSE [D EXCEPT !.sessions = CloseBrowser(@, s),
                     !.pass[p].pc = "cleanupClose"]

DO_ProbeFail(p) ==
  /\ impl = "DO"
  /\ pass[p].pc \in {"probe", "probeLate"}
  /\ Commit(ProbeFail(This, p))
  /\ UNCHANGED <<impl, activeBrowser, raceTimer, nextJob, alarm, alarmArmed>>

(* cleanupSession after close(): sessions.delete, save; getSession then    *)
(* continues its iteration after the failed session.                       *)
CleanupClosed(D, p) ==
  GetSession([D EXCEPT !.sessions = Remove(@, D.pass[p].sid)], p, D.pass[p].sid)

DO_CleanupClosed(p) ==
  /\ impl = "DO"
  /\ pass[p].pc = "cleanupClose"
  /\ Commit(CleanupClosed(This, p))
  /\ UNCHANGED <<impl, activeBrowser, raceTimer, nextJob, alarm, alarmArmed>>

(* getSession: puppeteer.launch resolved within LAUNCH_TIMEOUT_MS: browser *)
(* set, status idle, lastUsed, save, return newSession.                    *)
LaunchOk(D, p) ==
  LET s == D.pass[p].sid
  IN  Admit([D EXCEPT !.sessions =
                IF s \in DOMAIN @
                THEN [@ EXCEPT ![s] = [status |-> "idle",
                                       browser |-> "connected", idle |-> 0]]
                ELSE @], p, s)

DO_LaunchOk(p) ==
  /\ impl = "DO"
  /\ pass[p].pc = "launching"
  /\ Commit(LaunchOk(This, p))
  /\ UNCHANGED <<impl, activeBrowser, raceTimer, nextJob, alarm, alarmArmed>>

(* getSession: puppeteer.launch rejected, or withTimeout's timer fired:    *)
(* cleanupSession(id, true) deletes the entry (its browser is null) and    *)
(* saves; the error is rethrown through kickoffQueue's finally block.      *)
(* A behaviour has as many failed launches as leave one session identity   *)
(* for every request that is still to be admitted.                         *)
LaunchMayFail ==
  IdLimit - (nextSid - 1) >= (JobLimit - (nextJob - 1)) + Len(queue)

LaunchFail_noFinally(D, p) ==
  [D EXCEPT !.sessions = Remove(@, D.pass[p].sid), !.pass[p] = PassOff]

LaunchFail(D, p) ==
  ExitPass([D EXCEPT !.sessions = Remove(@, D.pass[p].sid)], p)

DO_LaunchFail(p) ==
  /\ impl = "DO"
  /\ pass[p].pc = "launching"
  /\ LaunchMayFail
  /\ Commit(LaunchFail(This, p))
  /\ UNCHANGED <<impl, activeBrowser, raceTimer, nextJob, alarm, alarmArmed>>

(* takeScreenshot resolves (only on a live browser) or rejects while       *)
(* executeJob awaits it; or it ends after withTimeout's timer has fired.   *)
DO_CaptureEnds(j, kind) ==
  /\ impl = "DO"
  /\ capture[j] = "running"
  /\ kind = "resolved" =>
        /\ runner[j].pc = "capture"
        /\ runner[j].sid \in DOMAIN sessions
        /\ sessions[runner[j].sid].browser = "connected"
  /\ IF runner[j].pc = "capture"
     THEN Commit([FinishJob(This, j, kind) EXCEPT !.capture[j] = "done"])
     ELSE Commit([This EXCEPT !.capture[j] = "done"])
  /\ UNCHANGED <<impl, activeBrowser, raceTimer, nextJob, alarm, alarmArmed>>

(* withTimeout's timer fires first (SCREENSHOT_TIMEOUT_MS elapsed); the    *)
(* capture goes on.                                                        *)
DO_ScreenshotTimeout(j) ==
  /\ impl = "DO"
  /\ runner[j].pc = "capture"
  /\ Commit(FinishJob(This, j, "rejected"))
  /\ UNCHANGED <<impl, activeBrowser, raceTimer, nextJob, alarm, alarmArmed>>

AlarmEnd_noKickoff(D) == D

(* alarm() after its loop: kickoffQueue(), then setAlarm.                  *)
AlarmEnd(D) == KickoffQueue(D)

(* alarm(): the loop over Array.from(sessions.keys()) up to the next       *)
(* await of browser.close().                                               *)
RECURSIVE AlarmSweep(_, _)
AlarmSweep(D, ids) ==
  IF ids = {}
  THEN [d |-> AlarmEnd(D), a |-> AlarmOff, armed |-> TRUE]
  ELSE LET id == Min(ids)
           rest == ids \ {id}
       IN  IF id \notin DOMAIN D.sessions \/ ~ShouldClean(D.sessions[id], FALSE)
           THEN AlarmSweep(D, rest)
           ELSE IF D.sessions[id].browser = "null"
           THEN AlarmSweep([D EXCEPT !.sessions = Remove(@, id)], rest)
           ELSE [d |-> [D EXCEPT !.sessions = CloseBrowser(@, id)],
                 a |-> [pc |-> "close", ids |-> rest, cur |-> id],
                 armed |-> FALSE]

DO_AlarmFires ==
  /\ impl = "DO"
  /\ alarmArmed
  /\ alarm.pc = "off"
  /\ LET r == AlarmSweep(This, DOMAIN sessions)
     IN  Commit(r.d) /\ alarm' = r.a /\ alarmArmed' = r.armed
  /\ UNCHANGED <<impl, activeBrowser, raceTimer, nextJob>>

(* alarm(): close() settled: sessions.delete, save, the loop goes on.      *)
DO_AlarmClosed ==
  /\ impl = "DO"
  /\ alarm.pc = "close"
  /\ LET r == AlarmSweep([This EXCEPT !.sessions = Remove(@, alarm.cur)],
                         alarm.ids)
     IN  Commit(r.d) /\ alarm' = r.a /\ alarmArmed' = r.armed
  /\ UNCHANGED <<impl, activeBrowser, raceTimer, nextJob>>

(* alarm(): close() settled and sessions.delete done, then the put of      *)
(* saveSessionsMeta rejects: cleanupSession and with it alarm() reject     *)
(* before kickoffQueue() and setAlarm are reached.                         *)
DO_AlarmSaveFails ==
  /\ impl = "DO"
  /\ alarm.pc = "close"
  /\ sessions' = Remove(sessions, alarm.cur)
  /\ alarm' = AlarmOff
  /\ alarmArmed' = FALSE
  /\ UNCHANGED <<impl, activeBrowser, raceTimer, queue, pending, processing, pass, runner, capture,
                 settled, lost, nextSid, nextJob, coalesced, activeSessions,
                 timers, lateLaunch>>

NextDO ==
  \/ DO_takeScreenshotJob
  \/ \E p \in PassIds :
       \/ DO_ProbeOk(p)
       \/ DO_ProbeFail(p)
       \/ DO_CleanupClosed(p)
       \/ DO_LaunchOk(p)
       \/ DO_LaunchFail(p)
  \/ \E j \in JobIds :
       \/ DO_CaptureEnds(j, "resolved")
       \/ DO_CaptureEnds(j, "rejected")
       \/ DO_ScreenshotTimeout(j)
  \/ DO_AlarmFires
  \/ DO_AlarmClosed
  \/ DO_AlarmSaveFails

(* ---------------- the earlier ScreenshotBrowserDO (Legacy) ------------- *)
(* job.resolve / job.reject: the handlers travel with the queue entry.     *)
L_settle(D, j, kind) == [D EXCEPT !.settled[j] = Append(@, kind)]

(* this.sessions.set(id, {...}): the entry is created when it is missing;  *)
(* a missing entry was deleted after its browser was closed.               *)
L_set(ss, s, st) ==
  IF s \in DOMAIN ss
  THEN [ss EXCEPT ![s].status = st, ![s].idle = 0]
  ELSE ss @@ (s :> [status |-> st, browser |-> "disconnected", idle |-> 0])

(* processQueue's last lines.                                              *)
L_ExitPass(D, p) == ExitPass(D, p)

(* getAvailableSession, one attempt, from the resumption of the iteration  *)
(* of this.sessions.values() after the entry `it` to the next scheduling   *)
(* point: the health check of an idle connected session, the close() of a  *)
(* session whose browser is not connected, the launch of a new session,    *)
(* the retry delay, or NoAvailableSessionError after the last attempt.     *)
L_Attempt(D, p, it) ==
  LET cand == {s \in DOMAIN D.sessions :
                 /\ s > it
                 /\ D.sessions[s].browser # "null"
                 /\ \/ D.sessions[s].status = "idle"
                    \/ ~Connected(D.sessions[s])}
  IN  IF cand # {}
      THEN LET s == Min(cand)
           IN  IF Connected(D.sessions[s])
               THEN [D EXCEPT !.pass[p].pc = "probe", !.pass[p].sid = s]
               ELSE [D EXCEPT !.pass[p].pc = "cleanupClose", !.pass[p].sid = s]
      ELSE IF Cardinality(DOMAIN D.sessions) < MAX_SESSIONS
      THEN [D EXCEPT
              !.sessions = @ @@ (D.nextSid :>
                  [status |-> "launching", browser |-> "null", idle |-> 0]),
              !.nextSid = @ + 1,
              !.pass[p].pc = "launching", !.pass[p].sid = D.nextSid]
      ELSE IF D.pass[p].attempt < MAX_RETRIES
      THEN [D EXCEPT !.pass[p].pc = "retryDelay", !.pass[p].sid = 0]
      ELSE L_ExitPass(D, p)

(* processQueue from the top of its while loop to the next scheduling      *)
(* point: stale heads are rejected, then getAvailableSession is awaited    *)
(* for the peeked head.                                                    *)
RECURSIVE L_LoopTop(_, _)
L_LoopTop(D, p) ==
  IF D.queue = <<>> THEN L_ExitPass(D, p)
  ELSE IF IsStale(Head(D.queue))
  THEN L_LoopTop(L_settle([D EXCEPT !.queue = Tail(@)],
                          Head(D.queue).id, "queueTimeout"), p)
  ELSE L_Attempt([D EXCEPT !.pass[p].head = Head(D.queue).id,
                           !.pass[p].attempt = 1], p, 0)

L_processQueue(D) ==
  IF D.processing THEN [D EXCEPT !.coalesced = TRUE]
  ELSE IF D.queue = <<>> THEN D
  ELSE LET free == {p \in PassIds : D.pass[p].pc = "off"}
       IN  IF free = {} THEN [D EXCEPT !.ok = FALSE]
           ELSE L_LoopTop([D EXCEPT !.processing = TRUE], Min(free))

(* executeJob from its call to `await session.browser.newPage()` in        *)
(* _takeScreenshot; the session keeps the status it had.  A session whose  *)
(* browser is not connected makes executeJob reject the job at once.       *)
L_executeJob(D, s, j) ==
  IF s \in DOMAIN D.sessions /\ Connected(D.sessions[s])
  THEN [D EXCEPT !.runner[j] = [pc |-> "capture", sid |-> s],
                 !.capture[j] = "newPage"]
  ELSE L_processQueue(L_settle([D EXCEPT !.runner[j] = [pc |-> "done", sid |-> s],
                                         !.capture[j] = "done"], j, "rejected"))

(* processQueue after getAvailableSession returned session s: shift,       *)
(* executeJob not awaited, then the loop again.                            *)
L_Dispatch(D, p, s) ==
  IF D.queue = <<>> THEN L_ExitPass(D, p)
  ELSE L_LoopTop(L_executeJob([D EXCEPT !.queue = Tail(@)], s, Head(D.queue).id), p)

(* cleanupSession after `await session.browser.close()` (or at once for a  *)
(* session without browser): delete, save, processQueue().                 *)
L_cleanupDelete(D, s) ==
  L_processQueue([D EXCEPT !.sessions = Remove(@, s)])

L_executeJobEnds_lateSettles(D, j, kind) ==
  L_processQueue(L_settle([D EXCEPT !.runner[j].pc = "done"], j, kind))

(* executeJob after captureScreenshotWithTimeout settled: job.resolve or   *)
(* job.reject, then processQueue() in the finally block; nothing when the  *)
(* timeout has settled it before.                                          *)
L_executeJobEnds(D, j, kind) ==
  IF D.runner[j].pc = "capture"
  THEN L_processQueue(L_settle([D EXCEPT !.runner[j].pc = "done"], j, kind))
  ELSE D

L_fetch ==
  /\ impl = "Legacy"
  /\ nextJob <= MaxLegacyJobs
  /\ Commit(L_processQueue([This EXCEPT
                              !.queue = Append(@, [id |-> nextJob, waited |-> 0])]))
  /\ nextJob' = nextJob + 1
  /\ UNCHANGED <<impl, activeBrowser, raceTimer, alarm, alarmArmed>>

(* getAvailableSession: the health check passed: lastUsed, save, return    *)
(* the session; its status is not read again.                              *)
L_ProbeOk(p) ==
  /\ impl = "Legacy"
  /\ pass[p].pc \in {"probe", "probeLate"}
  /\ pass[p].sid \in DOMAIN sessions
  /\ Connected(sessions[pass[p].sid])
  /\ Commit(L_Dispatch([This EXCEPT !.sessions = Touch(@, pass[p].sid)],
                       p, pass[p].sid))
  /\ UNCHANGED <<impl, activeBrowser, raceTimer, nextJob, alarm, alarmArmed>>

(* getAvailableSession: the health check failed: status terminating,       *)
(* sessions.set, cleanupSession(id, true) up to close().                   *)
L_ProbeFail(p) ==
  /\ impl = "Legacy"
  /\ pass[p].pc \in {"probe", "probeLate"}
  /\ Commit([This EXCEPT
               !.sessions = CloseBrowser(L_set(@, pass[p].sid, "terminating"),
                                         pass[p].sid),
               !.pass[p].pc = "cleanupClose"])
  /\ UNCHANGED <<impl, activeBrowser, raceTimer, nextJob, alarm, alarmArmed>>

(* getAvailableSession: cleanupSession's close() settled; the iteration    *)
(* goes on after the session.                                              *)
L_CleanupClosed(p) ==
  /\ impl = "Legacy"
  /\ pass[p].pc = "cleanupClose"
  /\ Commit(L_Attempt(L_cleanupDelete(This, pass[p].sid), p, pass[p].sid))
  /\ UNCHANGED <<impl, activeBrowser, raceTimer, nextJob, alarm, alarmArmed>>

(* launchNewSessionWithTimeout: puppeteer.launch resolved before the       *)
(* timer: the entry is set idle with its browser and returned.             *)
L_LaunchOk(p) ==
  /\ impl = "Legacy"
  /\ pass[p].pc = "launching"
  /\ Commit(L_Dispatch([This EXCEPT !.sessions =
                 (pass[p].sid :> [status |-> "idle", browser |-> "connected",
                                  idle |-> 0]) @@ @], p, pass[p].sid))
  /\ UNCHANGED <<impl, activeBrowser, raceTimer, nextJob, alarm, alarmArmed>>

(* launchNewSessionWithTimeout: puppeteer.launch rejected before the       *)
(* timer: the entry is deleted; the error leaves getAvailableSession and   *)
(* processQueue breaks.                                                    *)
L_LaunchFail(p) ==
  /\ impl = "Legacy"
  /\ pass[p].pc = "launching"
  /\ LaunchMayFail
  /\ Commit(L_ExitPass([This EXCEPT !.sessions = Remove(@, pass[p].sid)], p))
  /\ UNCHANGED <<impl, activeBrowser, raceTimer, nextJob, alarm, alarmArmed>>

(* launchNewSessionWithTimeout: the timer fires first: a launching entry   *)
(* becomes failed, the promise is rejected and processQueue breaks;        *)
(* puppeteer.launch is still pending.                                      *)
L_LaunchTimeout(p) ==
  /\ impl = "Legacy"
  /\ pass[p].pc = "launching"
  /\ LaunchMayFail
  /\ Commit(L_ExitPass([This EXCEPT
        !.sessions = IF pass[p].sid \in DOMAIN @
                        /\ @[pass[p].sid].status = "launching"
                     THEN [@ EXCEPT ![pass[p].sid].status = "failed"] ELSE @,
        !.lateLaunch = @ \cup {pass[p].sid}], p))
  /\ UNCHANGED <<impl, activeBrowser, raceTimer, nextJob, alarm, alarmArmed>>

(* launchNewSessionWithTimeout after its timer fired: puppeteer.launch     *)
(* resolves and the executor still runs sessions.set(sessionId, idle).     *)
L_LateLaunchOk(s) ==
  /\ impl = "Legacy"
  /\ s \in lateLaunch
  /\ Commit([This EXCEPT
        !.sessions = (s :> [status |-> "idle", browser |-> "connected",
                            idle |-> 0]) @@ @,
        !.lateLaunch = @ \ {s}])
  /\ UNCHANGED <<impl, activeBrowser, raceTimer, nextJob, alarm, alarmArmed>>

(* ... or rejects: sessions.delete(sessionId).                             *)
L_LateLaunchFail(s) ==
  /\ impl = "Legacy"
  /\ s \in lateLaunch
  /\ Commit([This EXCEPT !.sessions = Remove(@, s), !.lateLaunch = @ \ {s}])
  /\ UNCHANGED <<impl, activeBrowser, raceTimer, nextJob, alarm, alarmArmed>>

(* getAvailableSession: the retry delay elapsed: next attempt.             *)
L_RetryDelayEnds(p) ==
  /\ impl = "Legacy"
  /\ pass[p].pc = "retryDelay"
  /\ Commit(L_Attempt([This EXCEPT !.pass[p].attempt = @ + 1], p, 0))
  /\ UNCHANGED <<impl, activeBrowser, raceTimer, nextJob, alarm, alarmArmed>>

(* _takeScreenshot: newPage() resolved: status busy, sessions.set, save;   *)
(* the page work (setViewport, goto, screenshot, upload) is awaited.       *)
L_NewPageOk(j) ==
  /\ impl = "Legacy"
  /\ capture[j] = "newPage"
  /\ runner[j].sid \in DOMAIN sessions
  /\ sessions[runner[j].sid].browser = "connected"
  /\ Commit([This EXCEPT !.sessions = L_set(@, runner[j].sid, "busy"),
                         !.capture[j] = "running"])
  /\ UNCHANGED <<impl, activeBrowser, raceTimer, nextJob, alarm, alarmArmed>>

(* _takeScreenshot: newPage() rejected, outside the try block: the error   *)
(* reaches executeJob.                                                     *)
L_NewPageFail(j) ==
  /\ impl = "Legacy"
  /\ capture[j] = "newPage"
  /\ Commit(L_executeJobEnds([This EXCEPT !.capture[j] = "done"], j, "rejected"))
  /\ UNCHANGED <<impl, activeBrowser, raceTimer, nextJob, alarm, alarmArmed>>

(* _takeScreenshot: the page work succeeded: lastUsed, status idle,        *)
(* sessions.set, save, the finally block, and the result reaches           *)
(* executeJob.                                                             *)
L_CaptureOk(j) ==
  /\ impl = "Legacy"
  /\ capture[j] = "running"
  /\ runner[j].sid \in DOMAIN sessions
  /\ sessions[runner[j].sid].browser = "connected"
  /\ Commit(L_executeJobEnds([This EXCEPT
                                !.sessions = L_set(@, runner[j].sid, "idle"),
                                !.capture[j] = "done"], j, "resolved"))
  /\ UNCHANGED <<impl, activeBrowser, raceTimer, nextJob, alarm, alarmArmed>>

(* _takeScreenshot: the page work threw: status terminating, sessions.set, *)
(* cleanupSession(id, true) up to close().                                 *)
L_CaptureFail(j) ==
  /\ impl = "Legacy"
  /\ capture[j] = "running"
  /\ Commit([This EXCEPT
               !.sessions = CloseBrowser(L_set(@, runner[j].sid, "terminating"),
                                         runner[j].sid),
               !.capture[j] = "cleanupClose"])
  /\ UNCHANGED <<impl, activeBrowser, raceTimer, nextJob, alarm, alarmArmed>>

(* _takeScreenshot: cleanupSession's close() settled: delete, save,        *)
(* processQueue(); the error is rethrown through the finally block to      *)
(* executeJob.                                                             *)
L_CaptureCleanupClosed(j) ==
  /\ impl = "Legacy"
  /\ capture[j] = "cleanupClose"
  /\ Commit(L_executeJobEnds([L_cleanupDelete(This, runner[j].sid)
                                EXCEPT !.capture[j] = "done"], j, "rejected"))
  /\ UNCHANGED <<impl, activeBrowser, raceTimer, nextJob, alarm, alarmArmed>>

(* captureScreenshotWithTimeout: the timer fires first; _takeScreenshot    *)
(* goes on.                                                                *)
L_ScreenshotTimeout(j) ==
  /\ impl = "Legacy"
  /\ runner[j].pc = "capture"
  /\ Commit(L_executeJobEnds(This, j, "rejected"))
  /\ UNCHANGED <<impl, activeBrowser, raceTimer, nextJob, alarm, alarmArmed>>

(* alarm(): the loop over Array.from(sessions.keys()) up to the next await *)
(* of browser.close(); after the loop setAlarm and processQueue().         *)
RECURSIVE L_AlarmSweep(_, _)
L_AlarmSweep(D, ids) ==
  IF ids = {}
  THEN [d |-> L_processQueue(D), a |-> AlarmOff, armed |-> TRUE]
  ELSE LET id == Min(ids)
           rest == ids \ {id}
       IN  IF id \notin DOMAIN D.sessions \/ ~ShouldClean(D.sessions[id], FALSE)
           THEN L_AlarmSweep(D, rest)
           ELSE IF D.sessions[id].browser = "null"
           THEN L_AlarmSweep(L_cleanupDelete(D, id), rest)
           ELSE [d |-> [D EXCEPT !.sessions = CloseBrowser(@, id)],
                 a |-> [pc |-> "close", ids |-> rest, cur |-> id],
                 armed |-> FALSE]

L_AlarmFires ==
  /\ impl = "Legacy"
  /\ alarmArmed
  /\ alarm.pc = "off"
  /\ LET r == L_AlarmSweep(This, DOMAIN sessions)
     IN  Commit(r.d) /\ alarm' = r.a /\ alarmArmed' = r.armed
  /\ UNCHANGED <<impl, activeBrowser, raceTimer, nextJob>>

L_AlarmClosed ==
  /\ impl = "Legacy"
  /\ alarm.pc = "close"
  /\ LET r == L_AlarmSweep(L_cleanupDelete(This, alarm.cur), alarm.ids)
     IN  Commit(r.d) /\ alarm' = r.a /\ alarmArmed' = r.armed
  /\ UNCHANGED <<impl, activeBrowser, raceTimer, nextJob>>

(* alarm(): close() settled and sessions.delete done, then the put of      *)
(* saveSessionsToStorage rejects: cleanupSession and alarm() reject before *)
(* processQueue() and setAlarm are reached.                                *)
L_AlarmSaveFails ==
  /\ impl = "Legacy"
  /\ alarm.pc = "close"
  /\ sessions' = Remove(sessions, alarm.cur)
  /\ alarm' = AlarmOff
  /\ alarmArmed' = FALSE
  /\ UNCHANGED <<impl, activeBrowser, raceTimer, queue, pending, processing, pass, runner, capture,
                 settled, lost, nextSid, nextJob, coalesced, activeSessions,
                 timers, lateLaunch>>

NextLegacy ==
  \/ L_fetch
  \/ \E p \in PassIds :
       \/ L_ProbeOk(p)
       \/ L_ProbeFail(p)
       \/ L_CleanupClosed(p)
       \/ L_LaunchOk(p)
       \/ L_LaunchFail(p)
       \/ L_LaunchTimeout(p)
       \/ L_RetryDelayEnds(p)
  \/ \E s \in SessionIds :
       \/ L_LateLaunchOk(s)
       \/ L_LateLaunchFail(s)
  \/ \E j \in JobIds :
       \/ L_NewPageOk(j)
       \/ L_NewPageFail(j)
       \/ L_CaptureOk(j)
       \/ L_CaptureFail(j)
       \/ L_CaptureCleanupClosed(j)
       \/ L_ScreenshotTimeout(j)
  \/ L_AlarmFires
  \/ L_AlarmClosed
  \/ L_AlarmSaveFails

(* ------------------- ScreenshotQueueManager (queue.ts) ---------------- *)
isJobStale(e) == e.waited > QUEUE_TIMEOUT

(* rejectJob: pendingRequests.get(jobId)?.reject(error), then delete.      *)
rejectJob(D, jobId, error) ==
  [Settle(D, jobId, error) EXCEPT !.pending = @ \ {jobId}]

RECURSIVE removeStaleJobs(_)
removeStaleJobs(D) ==
  IF D.queue # <<>> /\ isJobStale(Head(D.queue))
  THEN removeStaleJobs(rejectJob([D EXCEPT !.queue = Tail(@)],
                                 Head(D.queue).id, "queueTimeout"))
  ELSE D

canProcessNewJob(D) ==
  Cardinality(D.activeSessions) < QM_MAX_CONCURRENT_BROWSER_SESSIONS

(* processQueue from its call to `await this.removeStaleJobs()`:           *)
(* removeStaleJobs has no await of its own, so the stale entries are       *)
(* rejected before the caller goes on; the rest of processQueue runs as a  *)
(* microtask.                                                              *)
QM_processQueue(D) ==
  IF D.processing
  THEN [D EXCEPT !.coalesced = TRUE]
  ELSE LET free == {p \in PassIds : D.pass[p].pc = "off"}
       IN  IF free = {} THEN [D EXCEPT !.ok = FALSE]
           ELSE [removeStaleJobs([D EXCEPT !.processing = TRUE])
                   EXCEPT !.pass[Min(free)].pc = "afterStale"]

(* executeJob from its call to `await this.executeScreenshotJob(..)`.      *)
QM_executeJob(D, job) ==
  [D EXCEPT !.activeSessions = @ \cup {job.id},
            !.runner[job.id] = [pc |-> "capture", sid |-> job.id],
            !.capture[job.id] = "running"]

QM_finally_noTimer(D, p) == ExitPass(D, p)

QM_finally_timerWhenFree(D, p) ==
  LET E == ExitPass(D, p)
  IN  IF E.queue # <<>> /\ E.activeSessions = {}
      THEN [E EXCEPT !.timers = @ + 1] ELSE E

(* processQueue's finally block.                                           *)
QM_finally(D, p) ==
  LET E == ExitPass(D, p)
  IN  IF E.queue # <<>> THEN [E EXCEPT !.timers = @ + 1] ELSE E

QM_allBusy_rejectsHead(D, p) ==
  QM_finally(rejectJob([D EXCEPT !.queue = Tail(@)], Head(D.queue).id,
                       "rejected"), p)

(* processQueue with every slot taken: queue.ts returns; the copy of the   *)
(* class kept in errors/index.ts throws NoAvailableSessionError, which     *)
(* rejects only the promise of processQueue itself, and every caller       *)
(* discards that promise with `void`.  Either way only the finally block   *)
(* changes the state.                                                      *)
QM_allBusy(D, p) == QM_finally(D, p)

(* processQueue after `await this.removeStaleJobs()`.                      *)
QM_processQueueResumes(D, p) ==
  IF D.queue = <<>> THEN QM_finally(D, p)
  ELSE IF ~canProcessNewJob(D) THEN QM_allBusy(D, p)
  ELSE QM_finally(QM_executeJob([D EXCEPT !.queue = Tail(@)], Head(D.queue)), p)

QM_executeJobEnds_keepsSlotOnFailure(D, j, kind) ==
  LET E == Settle(D, j, kind)
  IN  QM_processQueue([E EXCEPT !.pending = @ \ {j},
                                !.activeSessions =
                                   IF kind = "rejected" THEN @ ELSE @ \ {j},
                                !.runner[j] = [pc |-> "done", sid |-> 0],
                                !.capture[j] = "done"])

(* executeJob after executeScreenshotJob settled: resolve or reject, then  *)
(* the finally block.                                                      *)
QM_executeJobEnds(D, j, kind) ==
  LET E == Settle(D, j, kind)
  IN  QM_processQueue([E EXCEPT !.pending = @ \ {j},
                                !.activeSessions = @ \ {j},
                                !.runner[j] = [pc |-> "done", sid |-> 0],
                                !.capture[j] = "done"])

queueScreenshotJob_unshift(D, id) ==
  QM_processQueue([D EXCEPT !.queue = <<[id |-> id, waited |-> 0]>> \o @,
                            !.pending = @ \cup {id}])

queueScreenshotJob(D, id) ==
  QM_processQueue([D EXCEPT !.queue = Append(@, [id |-> id, waited |-> 0]),
                            !.pending = @ \cup {id}])

QM_queueScreenshotJob ==
  /\ impl = "QM"
  /\ nextJob <= MaxJobs
  /\ Commit(queueScreenshotJob(This, nextJob))
  /\ nextJob' = nextJob + 1
  /\ UNCHANGED <<impl, activeBrowser, raceTimer, alarm, alarmArmed>>

QM_PassResumes(p) ==
  /\ impl = "QM"
  /\ pass[p].pc = "afterStale"
  /\ Commit(QM_processQueueResumes(This, p))
  /\ UNCHANGED <<impl, activeBrowser, raceTimer, nextJob, alarm, alarmArmed>>

(* A callback of setTimeout(() => void this.processQueue(), 100) runs; it  *)
(* is a task, so no processQueue is waiting for its microtask.             *)
QM_TimerFires ==
  /\ impl = "QM"
  /\ timers > 0
  /\ ~processing
  /\ Commit(QM_processQueue([This EXCEPT !.timers = @ - 1]))
  /\ UNCHANGED <<impl, activeBrowser, raceTimer, nextJob, alarm, alarmArmed>>

(* The executor's promise settles.                                         *)
QM_CaptureEnds(j, kind) ==
  /\ impl = "QM"
  /\ runner[j].pc = "capture"
  /\ Commit(QM_executeJobEnds(This, j, kind))
  /\ UNCHANGED <<impl, activeBrowser, raceTimer, nextJob, alarm, alarmArmed>>

NextQM ==
  \/ QM_queueScreenshotJob
  \/ \E p \in PassIds : QM_PassResumes(p)
  \/ QM_TimerFires
  \/ \E j \in JobIds :
       \/ QM_CaptureEnds(j, "resolved")
       \/ QM_CaptureEnds(j, "rejected")

Next ==
  \/ NextDO
  \/ NextLegacy
  \/ NextQM
  \/ Tick
  \/ \E s \in SessionIds : BrowserDisconnects(s)
  \/ \E p \in PassIds : HealthCheckTimeoutElapses(p)

Spec == Init /\ [][Next]_vars

(* Every external operation completes or times out, the clock advances,   *)
(* timers and the alarm fire, and the puts to storage succeed.             *)
StoragePutFails == DO_AlarmSaveFails \/ L_AlarmSaveFails

PassStep ==
  \E p \in PassIds :
     \/ DO_ProbeOk(p) \/ DO_ProbeFail(p) \/ DO_CleanupClosed(p)
     \/ DO_LaunchOk(p) \/ DO_LaunchFail(p)
     \/ QM_PassResumes(p)

JobStep(j) ==
  \/ DO_ScreenshotTimeout(j)
  \/ QM_CaptureEnds(j, "resolved") \/ QM_CaptureEnds(j, "rejected")

Fairness ==
  /\ WF_vars(Tick)
  /\ WF_vars(DO_AlarmFires \/ DO_AlarmClosed)
  /\ WF_vars(PassStep \/ QM_TimerFires)
  /\ \A j \in JobIds : WF_vars(JobStep(j))

(* The fair behaviours of the two current implementations are checked for  *)
(* MaxFairJobs requests.                                                   *)
FairInit == Init /\ impl \in {"DO", "QM"}

FairSpec ==
  FairInit /\ [][Next /\ ~StoragePutFails /\ nextJob' <= MaxFairJobs + 1]_vars /\ Fairness

(* The same behaviours without any assumption on the captures: a running  *)
(* job may run for ever; the clock, the timers, the alarm and the          *)
(* dispatcher's own awaits keep going.                                     *)
PollFairness ==
  /\ WF_vars(Tick)
  /\ WF_vars(DO_AlarmFires \/ DO_AlarmClosed)
  /\ WF_vars(PassStep \/ QM_TimerFires)

PollSpec ==
  FairInit /\ [][Next /\ ~StoragePutFails /\ nextJob' <= MaxFairJobs + 1]_vars /\ PollFairness

(* The behaviours in which a health probe may never complete: no fairness  *)
(* on the outcome of a probe; every timer fires, every launch and close()  *)
(* settles or times out, every capture ends or times out.                  *)
AcquireStep(p) ==
  \/ HealthCheckTimeoutElapses(p)
  \/ DO_CleanupClosed(p) \/ DO_LaunchOk(p) \/ DO_LaunchFail(p)
  \/ L_CleanupClosed(p) \/ L_LaunchOk(p) \/ L_LaunchFail(p)
  \/ L_LaunchTimeout(p) \/ L_RetryDelayEnds(p)

HangFairness ==
  /\ WF_vars(Tick)
  /\ WF_vars(DO_AlarmFires \/ DO_AlarmClosed \/ L_AlarmFires \/ L_AlarmClosed)
  /\ \A p \in PassIds : WF_vars(AcquireStep(p))
  /\ \A j \in JobIds :
        WF_vars(DO_ScreenshotTimeout(j) \/ L_ScreenshotTimeout(j))

HangInit == Init /\ impl \in {"DO", "Legacy"}

HangSpec ==
  HangInit /\ [][Next /\ ~StoragePutFails /\ nextJob' <= MaxFairJobs + 1]_vars
           /\ HangFairness

(* --------------------- createQueueManager (p-queue) ------------------- *)
(* queue/manager.ts: a PQueue of the given concurrency runs the captures   *)
(* in submission order; every enqueue races its job against a timer that   *)
(* is set at submission and never cleared.  `queue` is the PQueue's        *)
(* waiting list, capture[j] the call screenshotService.capture of job j,   *)
(* settled[j] what the promise returned by enqueue settles with.           *)

(* PQueue: start the head of the waiting list while a slot is free.        *)
RECURSIVE PQ_tryToStartAnother(_)
PQ_tryToStartAnother(D) ==
  IF /\ D.queue # <<>>
     /\ Cardinality({j \in JobIds : D.capture[j] = "running"}) < concurrency
  THEN PQ_tryToStartAnother([D EXCEPT !.queue = Tail(@),
                                      !.capture[Head(D.queue).id] = "running"])
  ELSE D

(* Promise.race: the first of job and timer to settle settles the promise  *)
(* of enqueue; the later one is ignored.                                   *)
PQ_race(D, j, kind) ==
  IF D.settled[j] = <<>> THEN [D EXCEPT !.settled[j] = <<kind>>] ELSE D

enqueue ==
  /\ impl = "PQ"
  /\ nextJob <= MaxJobs
  /\ Commit(PQ_tryToStartAnother(
         [This EXCEPT !.queue = Append(@, [id |-> nextJob, waited |-> 0])]))
  /\ nextJob' = nextJob + 1
  /\ raceTimer' = [raceTimer EXCEPT ![nextJob] = 0]
  /\ UNCHANGED <<impl, activeBrowser, alarm, alarmArmed>>

PQ_Tick ==
  /\ impl = "PQ"
  /\ raceTimer' = [j \in JobIds |->
                     IF raceTimer[j] >= 0 /\ raceTimer[j] < timeout
                     THEN raceTimer[j] + 1 ELSE raceTimer[j]]
  /\ raceTimer' # raceTimer
  /\ UNCHANGED <<impl, activeBrowser, sessions, queue, pending, processing, pass, runner,
                 capture, settled, lost, nextSid, nextJob, coalesced,
                 activeSessions, timers, lateLaunch, alarm, alarmArmed>>

(* setTimeout callback of enqueue: reject(new QueueTimeoutError).          *)
PQ_TimerFires(j) ==
  /\ impl = "PQ"
  /\ raceTimer[j] = timeout
  /\ Commit(PQ_race(This, j, "queueTimeout"))
  /\ raceTimer' = [raceTimer EXCEPT ![j] = -1]
  /\ UNCHANGED <<impl, activeBrowser, nextJob, alarm, alarmArmed>>

(* screenshotService.capture settles: the job promise settles with it and  *)
(* the PQueue starts the next waiting job.                                 *)
PQ_CaptureEnds(j, kind) ==
  /\ impl = "PQ"
  /\ capture[j] = "running"
  /\ Commit(PQ_tryToStartAnother(
         PQ_race([This EXCEPT !.capture[j] = "done"], j, kind)))
  /\ UNCHANGED <<impl, activeBrowser, raceTimer, nextJob, alarm, alarmArmed>>

PQInit ==
  /\ impl = "PQ"
  /\ sessions = <<>>
  /\ nextSid = 1
  /\ queue = <<>>
  /\ pending = {}
  /\ processing = FALSE
  /\ pass = [p \in PassIds |-> PassOff]
  /\ runner = [j \in JobIds |-> RunnerNone]
  /\ capture = [j \in JobIds |-> "none"]
  /\ settled = [j \in JobIds |-> <<>>]
  /\ lost = {}
  /\ nextJob = 1
  /\ coalesced = FALSE
  /\ activeSessions = {}
  /\ timers = 0
  /\ lateLaunch = {}
  /\ alarm = AlarmOff
  /\ alarmArmed = FALSE
  /\ raceTimer = [j \in JobIds |-> -1]
  /\ activeBrowser = 0

PQNext ==
  \/ enqueue
  \/ PQ_Tick
  \/ \E j \in JobIds :
       \/ PQ_TimerFires(j)
       \/ PQ_CaptureEnds(j, "resolved")
       \/ PQ_CaptureEnds(j, "rejected")

PQSpec == PQInit /\ [][PQNext]_vars

(* ------------------ keep-alive screenshot service --------------------- *)
(* getRawScreenshot with ENABLE_KEEP_ALIVE: the executor that              *)
(* ScreenshotQueueManager runs for up to MAX_CONCURRENT_BROWSER_SESSIONS   *)
(* jobs at a time.  activeBrowser is the module's shared connection (0 for *)
(* null), sessions[b].browser the state of connection b, runner[j] the     *)
(* call for job j: its position, its local `browser` and                   *)
(* `usingExistingBrowser`.  `queue` is the manager's queue, which other    *)
(* requests fill and the dispatcher drains.                                *)
KA_None == [pc |-> "none", sid |-> 0, usingExistingBrowser |-> FALSE]

hasQueuedItems == queue # <<>>

(* The finally block up to `await browser.close()`.                        *)
KA_finally(D, j) ==
  IF ~hasQueuedItems /\ D.runner[j].sid # 0 /\ ~D.runner[j].usingExistingBrowser
  THEN [D EXCEPT !.sessions = CloseBrowser(@, D.runner[j].sid),
                 !.runner[j].pc = "finallyClose"]
  ELSE [D EXCEPT !.runner[j].pc = "done"]

(* getRawScreenshot from its call to its first await: reuse of the shared  *)
(* connection (newContext awaited) or connectToBrowser awaited.            *)
getRawScreenshot ==
  /\ impl = "KA"
  /\ nextJob <= MaxJobs
  /\ IF activeBrowser # 0 /\ Connected(sessions[activeBrowser])
     THEN runner' = [runner EXCEPT ![nextJob] =
                       [pc |-> "work", sid |-> activeBrowser,
                        usingExistingBrowser |-> TRUE]]
     ELSE runner' = [runner EXCEPT ![nextJob] =
                       [pc |-> "connecting", sid |-> 0,
                        usingExistingBrowser |-> FALSE]]
  /\ nextJob' = nextJob + 1
  /\ UNCHANGED <<impl, activeBrowser, sessions, queue, pending, processing,
                 pass, capture, settled, lost, nextSid, coalesced,
                 activeSessions, timers, lateLaunch, alarm, alarmArmed,
                 raceTimer>>

(* connectToBrowser resolved: activeBrowser = browser; newContext awaited. *)
KA_Connected(j) ==
  /\ impl = "KA"
  /\ runner[j].pc = "connecting"
  /\ nextSid <= MaxSessionIds
  /\ sessions' = sessions @@ (nextSid :> [browser |-> "connected"])
  /\ activeBrowser' = nextSid
  /\ nextSid' = nextSid + 1
  /\ runner' = [runner EXCEPT ![j].pc = "work", ![j].sid = nextSid]
  /\ UNCHANGED <<impl, queue, pending, processing, pass, capture, settled,
                 lost, nextJob, coalesced, activeSessions, timers, lateLaunch,
                 alarm, alarmArmed, raceTimer>>

(* connectToBrowser threw after its retries: catch (nothing to clear),     *)
(* finally (browser is null), the error reaches the caller.                *)
KA_ConnectFails(j) ==
  /\ impl = "KA"
  /\ runner[j].pc = "connecting"
  /\ Commit([This EXCEPT !.runner[j].pc = "done",
                         !.settled[j] = Append(@, "rejected")])
  /\ UNCHANGED <<impl, activeBrowser, nextJob, alarm, alarmArmed, raceTimer>>

(* The page work and context.close() succeeded on an open connection:      *)
(* return screenshotBuffer, then the finally block.                        *)
KA_WorkOk(j) ==
  /\ impl = "KA"
  /\ runner[j].pc = "work"
  /\ sessions[runner[j].sid].browser = "connected"
  /\ Commit(KA_finally([This EXCEPT !.settled[j] = Append(@, "resolved")], j))
  /\ UNCHANGED <<impl, activeBrowser, nextJob, alarm, alarmArmed, raceTimer>>

(* The page work threw: the catch block closes activeBrowser when this     *)
(* call reused a connection, else the finally block follows.               *)
KA_WorkFails(j) ==
  /\ impl = "KA"
  /\ runner[j].pc = "work"
  /\ IF runner[j].usingExistingBrowser /\ activeBrowser # 0
     THEN Commit([This EXCEPT !.sessions = CloseBrowser(@, activeBrowser),
                              !.runner[j].pc = "catchClose",
                              !.settled[j] = Append(@, "rejected")])
     ELSE Commit(KA_finally([This EXCEPT !.settled[j] = Append(@, "rejected")], j))
  /\ UNCHANGED <<impl, activeBrowser, nextJob, alarm, alarmArmed, raceTimer>>

(* `await activeBrowser.close()` of the catch block settled:               *)
(* activeBrowser = null, rethrow, finally (nothing for a reused browser).  *)
KA_CatchClosed(j) ==
  /\ impl = "KA"
  /\ runner[j].pc = "catchClose"
  /\ sessions' = [b \in DOMAIN sessions |->
                    IF sessions[b].browser = "closing"
                    THEN [browser |-> "disconnected"] ELSE sessions[b]]
  /\ activeBrowser' = 0
  /\ runner' = [runner EXCEPT ![j].pc = "done"]
  /\ UNCHANGED <<impl, queue, pending, processing, pass, capture, settled,
                 lost, nextSid, nextJob, coalesced, activeSessions, timers,
                 lateLaunch, alarm, alarmArmed, raceTimer>>

(* `await browser.close()` of the finally block settled:                   *)
(* activeBrowser = null.                                                   *)
KA_FinallyClosed(j) ==
  /\ impl = "KA"
  /\ runner[j].pc = "finallyClose"
  /\ sessions' = [sessions EXCEPT ![runner[j].sid].browser = "disconnected"]
  /\ activeBrowser' = 0
  /\ runner' = [runner EXCEPT ![j].pc = "done"]
  /\ UNCHANGED <<impl, queue, pending, processing, pass, capture, settled,
                 lost, nextSid, nextJob, coalesced, activeSessions, timers,
                 lateLaunch, alarm, alarmArmed, raceTimer>>

(* Another request is queued in the manager, or its queue is drained.      *)
KA_QueueChanges ==
  /\ impl = "KA"
  /\ queue' = IF queue = <<>> THEN <<[id |-> 0, waited |-> 0]>> ELSE <<>>
  /\ UNCHANGED <<impl, activeBrowser, sessions, pending, processing, pass,
                 runner, capture, settled, lost, nextSid, nextJob, coalesced,
                 activeSessions, timers, lateLaunch, alarm, alarmArmed,
                 raceTimer>>

KAInit ==
  /\ impl = "KA"
  /\ activeBrowser = 0
  /\ sessions = <<>>
  /\ nextSid = 1
  /\ queue = <<>>
  /\ pending = {}
  /\ processing = FALSE
  /\ pass = [p \in PassIds |-> PassOff]
  /\ runner = [j \in JobIds |-> KA_None]
  /\ capture = [j \in JobIds |-> "none"]
  /\ settled = [j \in JobIds |-> <<>>]
  /\ lost = {}
  /\ nextJob = 1
  /\ coalesced = FALSE
  /\ activeSessions = {}
  /\ timers = 0
  /\ lateLaunch = {}
  /\ alarm = AlarmOff
  /\ alarmArmed = FALSE
  /\ raceTimer = [j \in JobIds |-> -1]

KANext ==
  \/ getRawScreenshot
  \/ KA_QueueChanges
  \/ \E j \in JobIds :
       \/ KA_Connected(j)
       \/ KA_ConnectFails(j)
       \/ KA_WorkOk(j)
       \/ KA_WorkFails(j)
       \/ KA_CatchClosed(j)
       \/ KA_FinallyClosed(j)

KASpec == KAInit /\ [][KANext]_vars

(* ============================== claims ================================ *)
Queued == {queue[i].id : i \in 1..Len(queue)}
InFlight == {j \in JobIds : runner[j].pc = "capture"}
Admitted(j) == runner[j].pc = "none" /\ runner'[j].pc # "none"
Completes(j) == runner[j].pc = "capture" /\ runner'[j].pc = "done"
ActivePasses == {p \in PassIds : pass[p].pc # "off"}
Current == impl \in {"DO", "QM"}
HasCapacity(ss) ==
  \/ \E s \in DOMAIN ss : ss[s].status = "idle" /\ Connected(ss[s])
  \/ Cardinality(DOMAIN ss) < MAX_CONCURRENT_BROWSER_SESSIONS
WaitedOf(j) == LET i == CHOOSE k \in 1..Len(queue) : queue[k].id = j
               IN  queue[i].waited

(* C1: the pool never holds more entries with status launching, idle or   *)
(* busy than the configured maximum.  The Legacy class breaks it: a        *)
(* launch that resolves after its timeout re-inserts its entry.            *)
ActiveEntries ==
  {s \in DOMAIN sessions : sessions[s].status \in {"launching", "idle", "busy"}}

C1_PoolWithinCapacity ==
  Cardinality(ActiveEntries) <=
     (IF impl = "Legacy" THEN MAX_SESSIONS ELSE MAX_CONCURRENT_BROWSER_SESSIONS)

(* C2: no two jobs in flight hold the same session.  The Legacy class      *)
(* breaks it: a session stays idle between its hand-off and the end of     *)
(* newPage() in _takeScreenshot, and the dispatcher hands it out again.    *)
C2_ExclusiveSession ==
  \A j, k \in InFlight : j # k => runner[j].sid # runner[k].sid

(* C9: when a pass during which a trigger was dropped by the guard exits   *)
(* while jobs are queued and the pool has capacity, a follow-up pass is    *)
(* running after the exit.  The code drops the trigger for good.           *)
C9_FollowUpPass ==
  [][(impl \in {"DO", "Legacy"} /\ coalesced /\ queue' # <<>>
        /\ HasCapacity(sessions'))
     => processing']_vars

(* C3: jobs leave the queue for execution in their enqueue order (job      *)
(* identities are issued in enqueue order): the job handed to a runner is  *)
(* the head of the queue, it is the head that the running pass examined    *)
(* before it acquired the session, and no earlier job stays queued.        *)
C3_FifoAdmission ==
  [][\A j \in JobIds : (Current /\ Admitted(j)) =>
        /\ queue # <<>> /\ Head(queue).id = j
        /\ impl = "DO" => \A p \in ActivePasses : pass[p].head = j
        /\ \A i \in Queued' : i > j]_vars

C3_Witness ==
  /\ runner[1].pc # "none" /\ runner[2].pc = "capture" /\ 3 \in Queued

(* C4: a job is rejected with the queue-timeout error only while it waits  *)
(* in the queue and only when its residence time strictly exceeds the      *)
(* queue timeout; the capture is never started for such a job, and a job   *)
(* that was settled without being admitted was settled with that error.    *)
C4_QueueTimeoutOnlyWhenStale ==
  /\ [](\A j \in JobIds : Current =>
         /\ (settled[j] # <<>> /\ runner[j].pc = "none")
               => settled[j] = <<"queueTimeout">>
         /\ "queueTimeout" \in {settled[j][i] : i \in 1..Len(settled[j])}
               => (capture[j] = "none" /\ runner[j].pc = "none"))
  /\ [][\A j \in JobIds :
          (Current /\ Len(settled'[j]) > Len(settled[j])
              /\ settled'[j][Len(settled'[j])] = "queueTimeout")
          => (j \in Queued /\ WaitedOf(j) > QueueTimeout
                /\ capture[j] = "none")]_vars

C4_Witness ==
  /\ settled[2] = <<"queueTimeout">> /\ capture[2] = "none"
  /\ settled[1] = <<"resolved">>

(* C5: a result handle is settled at most once, its pending entry is gone  *)
(* once it is settled, and no resolve/reject is attempted for a job whose  *)
(* entry was already removed.                                              *)
C5_SettleOnce ==
  Current =>
    /\ \A j \in JobIds : Len(settled[j]) <= 1
    /\ \A j \in JobIds : settled[j] # <<>> => j \notin pending
    /\ lost = {}

C5_Witness ==
  /\ settled[1] = <<"resolved">> /\ settled[2] = <<"rejected">>
  /\ settled[3] = <<"queueTimeout">> /\ pending = {}

(* C7: the pending table holds exactly the jobs that are queued or in      *)
(* flight, once each, none of them settled; this holds right after         *)
(* takeScreenshotJob, whose call of kickoffQueue precedes the              *)
(* registration.                                                           *)
C7_PendingMatchesJobs ==
  Current =>
    /\ pending = Queued \cup InFlight
    /\ Queued \cap InFlight = {}
    /\ Cardinality(Queued) = Len(queue)
    /\ \A j \in pending : settled[j] = <<>>

C7_Witness ==
  /\ 1 \in InFlight /\ 2 \in Queued /\ 3 \in Queued /\ processing

(* C8: at most one activation of the dispatcher loop is between its guard  *)
(* and its exit, and `processing` is set exactly while one is.             *)
C8_SingleDispatcher ==
  /\ Cardinality(ActivePasses) <= 1
  /\ processing <=> ActivePasses # {}

C8_Witness == processing /\ coalesced /\ Cardinality(ActivePasses) = 1

(* C10: the jobs in flight on sessions of the pool never outnumber the     *)
(* capacity; the job admitted is always the head of the queue and goes to  *)
(* a session that no other job in flight holds; and when a job completes   *)
(* and jobs are queued, a dispatcher pass is running right after the       *)
(* completion unless there is no capacity.                                 *)
Capacity == IF impl = "QM" THEN QM_MAX_CONCURRENT_BROWSER_SESSIONS
            ELSE MAX_CONCURRENT_BROWSER_SESSIONS
Holding == {j \in InFlight : impl = "QM" \/ runner[j].sid \in DOMAIN sessions}

C6_EventuallySettled ==
  <>[](\A j \in JobIds : j < nextJob =>
          (Len(settled[j]) = 1 /\ j \notin pending /\ j \notin Queued))

C6_Witness ==
  /\ nextJob = MaxFairJobs + 1
  /\ \A j \in 1..MaxFairJobs : Len(settled[j]) = 1 /\ j \notin pending
  /\ settled[1] = <<"queueTimeout">>

(* C11: acquire called on a full pool that holds no idle session with a    *)
(* connected browser ends at once with the no-capacity signal: a pass that *)
(* calls acquire in a step (it starts, or goes on to the next head) and is *)
(* left waiting inside it (probe, close of a session, launch, retry delay) *)
(* did not find the pool, apart from the entry it is launching, full and   *)
(* without an idle connected session.  The Legacy getAvailableSession      *)
(* sleeps RETRY_DELAY_MS and retries, and closes sessions whose browser is *)
(* disconnected.                                                           *)
AcquireWaits == {"probe", "probeLate", "cleanupClose", "launching", "retryDelay"}
NoCapacity(ss) ==
  /\ Cardinality({s \in DOMAIN ss : ss[s].status \in {"launching", "idle", "busy"}})
       >= (IF impl = "Legacy" THEN MAX_SESSIONS ELSE MAX_CONCURRENT_BROWSER_SESSIONS)
  /\ \A s \in DOMAIN ss : ~(ss[s].status = "idle" /\ Connected(ss[s]))
PoolApartFrom(ss, s) == [x \in DOMAIN ss \ {s} |-> ss[x]]

C11_NoCapacityAtOnce ==
  [][\A p \in PassIds :
       (impl \in {"DO", "Legacy"} /\ pass'[p].pc \in AcquireWaits
          /\ (pass[p].pc = "off" \/ pass'[p].head # pass[p].head))
       => ~NoCapacity(IF pass'[p].pc = "launching"
                      THEN PoolApartFrom(sessions', pass'[p].sid)
                      ELSE sessions')]_vars

(* C12: a queued job leaves the queue only by being handed to a runner or  *)
(* by the queue-timeout eviction of a stale entry; otherwise, and so when  *)
(* the dispatcher finds no capacity, it stays queued (the head stays the   *)
(* head), its result handle is not settled and it stays registered.        *)
Evicted(j) ==
  /\ j \in Queued /\ j \notin Queued'
  /\ WaitedOf(j) > QueueTimeout
  /\ settled'[j] = Append(settled[j], "queueTimeout")
  /\ runner'[j].pc = "none"

C12_NoCapacityKeepsJobQueued ==
  [][\A j \in JobIds :
       (j \in Queued /\ ~Admitted(j) /\ ~Evicted(j)) =>
          /\ j \in Queued'
          /\ settled'[j] = settled[j]
          /\ Head(queue).id = j => Head(queue').id = j
          /\ impl # "Legacy" => j \in pending']_vars

(* Two jobs run, the third found no capacity and waits.                    *)
C12_Witness ==
  /\ ~processing /\ queue # <<>> /\ Head(queue).id = 3
  /\ Cardinality(InFlight) = Capacity
  /\ impl = "DO" => ~HasCapacity(sessions)
  /\ 3 \in pending /\ settled[3] = <<>>
  /\ Head(queue).waited = QueueTimeout

(* C13: a session whose health probe failed, or was still pending when the *)
(* health-check timeout elapsed, is not handed to a job by that acquire,   *)
(* and it is out of the pool when the acquire goes on to another session,  *)
(* to a launch or to its end.  Both classes return a session whose probe   *)
(* completes after the timeout.                                            *)
C13_FailedProbeNeverReturned ==
  [][\A p \in PassIds :
       (impl \in {"DO", "Legacy"} /\ pass[p].pc \in {"probeLate", "cleanupClose"})
       => /\ \A j \in JobIds : Admitted(j) => runner'[j].sid # pass[p].sid
          /\ pass'[p].pc \notin {"probeLate", "cleanupClose"}
                => pass[p].sid \notin DOMAIN sessions']_vars

(* C14: an alarm tick removes every session that it finds idle for longer  *)
(* than SESSION_TTL_MS: after a step of alarm() such a session is out of   *)
(* the pool, or its browser is being closed by the tick, or the tick has   *)
(* yet to examine it; the session whose close() the tick awaited is out of *)
(* the pool when the tick goes on.  When the tick ends with jobs queued    *)
(* and a slot free, a dispatcher pass is running for the head job.         *)
AlarmStep == DO_AlarmFires \/ DO_AlarmClosed \/ L_AlarmFires \/ L_AlarmClosed
ExpiredIdle(s) ==
  /\ s \in DOMAIN sessions
  /\ sessions[s].status = "idle"
  /\ sessions[s].idle > SESSION_TTL_MS

C14_IdleExpiredReaped ==
  [][AlarmStep =>
       /\ \A s \in SessionIds :
            (ExpiredIdle(s) /\ (alarm.pc = "close" => s \in alarm.ids))
            => \/ s \notin DOMAIN sessions'
               \/ alarm'.pc = "close" /\ (alarm'.cur = s \/ s \in alarm'.ids)
       /\ alarm.pc = "close" => alarm.cur \notin DOMAIN sessions'
       /\ (alarm'.pc = "off" /\ queue' # <<>> /\ HasCapacity(sessions'))
            => processing']_vars

(* The tick is closing the browser of an expired idle session of a full    *)
(* pool while a job waits.                                                 *)
C14_Witness ==
  /\ impl = "DO" /\ alarm.pc = "close" /\ ExpiredIdle(alarm.cur)
  /\ Cardinality(DOMAIN sessions) = MAX_CONCURRENT_BROWSER_SESSIONS
  /\ queue # <<>>

(* C15: when a job ends in failure on a session whose browser handle is    *)
(* disconnected, the release tears the session down: after the step the    *)
(* session is out of the pool or marked terminating, so the active count   *)
(* went down by one; and no job is ever handed a session whose browser is  *)
(* not connected.  executeJob of the later class recycles the session to   *)
(* idle whatever the failure was.                                          *)
C15_CorruptSessionTornDown ==
  /\ [][\A j \in JobIds :
          (impl \in {"DO", "Legacy"} /\ Completes(j)
             /\ settled'[j] = Append(settled[j], "rejected")
             /\ runner[j].sid \in DOMAIN sessions
             /\ sessions[runner[j].sid].browser = "disconnected")
          => \/ runner[j].sid \notin DOMAIN sessions'
             \/ sessions'[runner[j].sid].status = "terminating"]_vars
  /\ [][\A j \in JobIds :
          (impl \in {"DO", "Legacy"} /\ Admitted(j) /\ runner'[j].pc = "capture")
          => /\ runner'[j].sid \in DOMAIN sessions'
             /\ sessions'[runner'[j].sid].browser = "connected"]_vars

(* C16: when a job ends in failure on a session whose browser handle is    *)
(* still connected, the session stays in the pool and is idle after the    *)
(* release, and no other job is rejected by it (a stale queue entry may be *)
(* evicted by the dispatcher pass that the release triggers).  The Legacy  *)
(* _takeScreenshot tears the session down on every error.                  *)
C16_JobFailureKeepsSession ==
  [][\A j \in JobIds :
       (impl \in {"DO", "Legacy"} /\ Completes(j)
          /\ settled'[j] = Append(settled[j], "rejected")
          /\ runner[j].sid \in DOMAIN sessions
          /\ Connected(sessions[runner[j].sid]))
       => /\ runner[j].sid \in DOMAIN sessions'
          /\ sessions'[runner[j].sid].status = "idle"
          /\ \A k \in JobIds \ {j} :
                settled'[k] = settled[k] \/ Evicted(k)]_vars

(* C17: when the launch of a session fails or times out inside acquire,    *)
(* the launching entry is out of the pool after the step, the queue, the   *)
(* result handles and the pending table are untouched, the pass has ended, *)
(* and whenever a pass waits inside acquire the job it works for is the    *)
(* head of the queue, so the next trigger attempts the same head.  The     *)
(* Legacy launchNewSessionWithTimeout keeps the entry, marked failed, when *)
(* its timer fires.                                                        *)
LaunchFails(p) == DO_LaunchFail(p) \/ L_LaunchFail(p) \/ L_LaunchTimeout(p)

C17_LaunchFailureKeepsHead ==
  /\ [][\A p \in PassIds :
          LaunchFails(p) =>
             /\ pass[p].sid \notin DOMAIN sessions'
             /\ queue' = queue /\ settled' = settled /\ pending' = pending
             /\ runner' = runner
             /\ ~processing']_vars
  /\ [](\A p \in PassIds :
          (impl \in {"DO", "Legacy"} /\ pass[p].pc # "off")
          => (queue # <<>> /\ pass[p].head = Head(queue).id))

(* C18: a job that waits behind running jobs is evicted with the           *)
(* queue-timeout error without waiting for them: even if no capture ever   *)
(* ends (PollSpec), from some point on no entry older than the queue       *)
(* timeout is in the queue; and the eviction of a job leaves every job     *)
(* that is running before and after it registered, unsettled and on its    *)
(* session, which is unchanged (the sweep of an alarm tick, which precedes *)
(* the eviction in the same step, set aside).                              *)
C18_EvictedWhileOthersRun ==
  /\ <>[](\A i \in 1..Len(queue) : queue[i].waited <= QueueTimeout)
  /\ [][\A j \in JobIds : Evicted(j) =>
          \A k \in InFlight \cap InFlight' :
             /\ runner'[k] = runner[k]
             /\ k \in pending' /\ settled'[k] = <<>>
             /\ impl = "QM" => k \in activeSessions'
             /\ (impl = "DO" /\ runner[k].sid \in DOMAIN sessions /\ ~AlarmStep)
                  => /\ runner[k].sid \in DOMAIN sessions'
                     /\ sessions'[runner[k].sid] = sessions[runner[k].sid]]_vars

(* The second job was rejected for queue timeout while the first is still  *)
(* executing.                                                              *)
C18_Witness ==
  /\ 1 \in InFlight /\ 1 \in pending /\ settled[1] = <<>>
  /\ settled[2] = <<"queueTimeout">> /\ capture[2] = "none"

(* C19: every alarm tick ends with the next alarm scheduled, whatever the  *)
(* teardown or the persistence of the metadata did: whenever no alarm()    *)
(* is running in a ScreenshotBrowserDO, its storage alarm is set.          *)
C19_AlarmAlwaysRescheduled ==
  (impl \in {"DO", "Legacy"} /\ alarm.pc = "off") => alarmArmed

(* C20: a session entry without live handle that no launch in progress     *)
(* owns, whatever its status (restored from the persisted metadata, or     *)
(* left terminating or failed), does not hold its slot for ever: from some *)
(* alarm tick on no such entry is in the pool.                             *)
Orphan(s) ==
  /\ s \in DOMAIN sessions
  /\ sessions[s].browser = "null"
  /\ \A p \in PassIds : ~(pass[p].pc = "launching" /\ pass[p].sid = s)

C20_OrphanEntriesReaped ==
  <>[](impl = "DO" => \A s \in SessionIds : ~Orphan(s))

(* C21: in createQueueManager a caller receives QueueTimeoutError only for *)
(* a job whose capture has not started, and the capture of a job whose     *)
(* caller received QueueTimeoutError is never invoked afterwards.          *)
C21_QueueTimeoutMeansNeverRun ==
  [][impl = "PQ" =>
       \A j \in JobIds :
          /\ (settled[j] = <<>> /\ settled'[j] = <<"queueTimeout">>)
                => capture[j] = "none"
          /\ settled[j] = <<"queueTimeout">>
                => ~(capture[j] = "none" /\ capture'[j] = "running")]_vars

(* C22: in ScreenshotQueueManager activeSessions holds exactly the         *)
(* executor invocations in flight and never more than                      *)
(* MAX_CONCURRENT_BROWSER_SESSIONS of them: executeJob gives its slot back *)
(* on success and on failure.                                              *)
C22_ActiveSessionsAreRunners ==
  impl = "QM" =>
    /\ activeSessions = {j \in JobIds : capture[j] = "running"}
    /\ activeSessions = {j \in JobIds : runner[j].pc \notin {"none", "done"}}
    /\ Cardinality(activeSessions) <= QM_MAX_CONCURRENT_BROWSER_SESSIONS

C22_Witness ==
  /\ impl = "QM"
  /\ settled[1] = <<"rejected">>
  /\ 1 \notin activeSessions
  /\ 2 \in activeSessions
  /\ Cardinality(activeSessions) = QM_MAX_CONCURRENT_BROWSER_SESSIONS

(* C23: a pass of kickoffQueue packs the capacity.  The step that admits a *)
(* job leaves it running and, when a fresh job is queued behind it, goes   *)
(* on in the same pass to acquire a session for that job, or ends the pass *)
(* because no capacity is left.  A pass that ends otherwise than by a      *)
(* launch error with jobs still queued leaves no capacity and the queue in *)
(* its order; when the pool started empty and no job has settled or lost   *)
(* its session, MAX_CONCURRENT_BROWSER_SESSIONS jobs are then in flight    *)
(* together and the k - N later ones are queued in submission order.       *)
NothingFinished ==
  /\ \A j \in JobIds : settled[j] = <<>> /\ capture[j] # "done"
  /\ \A s \in DOMAIN sessions : sessions[s].status = "busy" /\ Connected(sessions[s])
  /\ \A j \in InFlight : runner[j].sid \in DOMAIN sessions

C23_PassPacksCapacity ==
  [][impl = "DO" =>
       /\ \A j \in JobIds : \A p \in ActivePasses :
            (Admitted(j) /\ queue' # <<>>) =>
               /\ runner'[j].pc = "capture" /\ capture'[j] = "running"
               /\ \/ /\ processing'
                     /\ pass'[p].pc \in {"probe", "launching"}
                     /\ pass'[p].head = Head(queue').id
                  \/ ~processing' /\ ~HasCapacity(sessions')
       /\ (processing /\ ~processing' /\ queue' # <<>>
             /\ ~(\E p \in PassIds : DO_LaunchFail(p))) =>
               /\ ~HasCapacity(sessions')
               /\ \E n \in 0..Len(queue) : queue' = SubSeq(queue, n + 1, Len(queue))
               /\ NothingFinished' =>
                    /\ Cardinality(InFlight') = MAX_CONCURRENT_BROWSER_SESSIONS
                    /\ Len(queue') = (nextJob' - 1) - MAX_CONCURRENT_BROWSER_SESSIONS
                    /\ \A i \in 1..Len(queue') :
                         queue'[i].id = MAX_CONCURRENT_BROWSER_SESSIONS + i]_vars

(* The pass has ended on the no-capacity signal: jobs 1 and 2 run          *)
(* together on the two sessions of the pool, job 3 is queued.              *)
C23_Witness ==
  /\ impl = "DO"
  /\ ~processing
  /\ NothingFinished
  /\ InFlight = {1, 2}
  /\ Queued = {3}
  /\ Cardinality(DOMAIN sessions) = MAX_CONCURRENT_BROWSER_SESSIONS

(* C24: a job that is dequeued and handed to a runner has not waited in    *)
(* the queue for longer than the queue timeout, whatever time the acquire  *)
(* before the dequeue took.                                                *)
C24_AdmittedJobIsFresh ==
  [][\A j \in JobIds :
        (impl \in {"DO", "Legacy"} /\ j \in Queued /\ Admitted(j))
           => WaitedOf(j) <= QueueTimeout]_vars

(* C25: the execution timeout rejects the job at once, and the completion  *)
(* of the capture that was left running, whether it succeeds or fails,     *)
(* changes neither what the caller was told nor the job's pending entry.   *)
ExecutionTimeout(j) == DO_ScreenshotTimeout(j) \/ L_ScreenshotTimeout(j)
LateCompletion(j) == runner[j].pc = "done" /\ capture'[j] # capture[j]

C25_TimeoutOutcomeIsFinal ==
  [][\A j \in JobIds :
        /\ ExecutionTimeout(j) =>
              /\ settled'[j] = <<"rejected">>
              /\ j \notin pending'
              /\ capture'[j] = capture[j] /\ capture[j] \notin {"none", "done"}
        /\ LateCompletion(j) =>
              /\ settled'[j] = settled[j]
              /\ j \notin pending /\ j \notin pending'
              /\ lost' = lost]_vars

(* Job 1 was rejected by the execution timeout; its capture is still       *)
(* running.                                                                *)
C25_Witness ==
  /\ impl \in {"DO", "Legacy"}
  /\ runner[1].pc = "done"
  /\ capture[1] = "running"
  /\ settled[1] = <<"rejected">>
  /\ 1 \notin pending

(* C26: when a job runner ends, on success, failure or execution timeout,  *)
(* the job's pending entry is gone and its session is released (idle or    *)
(* being torn down) before the dispatcher is triggered: after the step the *)
(* session is not busy, unless the triggered pass gave it to another job.  *)
C26_ReleasedBeforeDispatch ==
  [][\A j \in JobIds :
        Completes(j) =>
           /\ j \notin pending'
           /\ impl = "QM" => j \notin activeSessions'
           /\ (impl # "QM" /\ runner[j].sid \in DOMAIN sessions') =>
                 \/ sessions'[runner[j].sid].status # "busy"
                 \/ \E k \in JobIds \ {j} :
                       Admitted(k) /\ runner'[k].sid = runner[j].sid]_vars

(* C27: a session whose launch was reported as timed out does not appear   *)
(* in the pool as idle or busy when that launch completes later.           *)
C27_TimedOutLaunchStaysOut ==
  [][\A s \in SessionIds :
        s \in lateLaunch =>
           ~(s \in DOMAIN sessions' /\ sessions'[s].status \in {"idle", "busy"})]_vars

(* C28: the session that acquire returns is an entry of the pool with an   *)
(* open handle when the job starts on it, and an alarm tick that runs      *)
(* during the health probe leaves the probed session and its handle alone. *)
Probed == {pass[p].sid : p \in {q \in PassIds : pass[q].pc \in {"probe", "probeLate"}}}

C28_AcquiredSessionIsLive ==
  [][impl = "DO" =>
       /\ \A j \in JobIds :
            Admitted(j) =>
               /\ runner'[j].sid \in DOMAIN sessions'
               /\ sessions'[runner'[j].sid].browser = "connected"
       /\ AlarmStep =>
            \A s \in Probed \cap DOMAIN sessions :
               /\ s \in DOMAIN sessions'
               /\ sessions'[s].browser = sessions[s].browser]_vars

C30_AcquireTerminates ==
  <>[](/\ ~processing
       /\ \A p \in PassIds : pass[p].pc \notin AcquireWaits)

(* C31: when a dispatcher pass exits, on an empty queue, on the            *)
(* no-capacity signal or on an error of acquire, the running guard is      *)
(* clear and every queued job is still registered and unsettled; the next  *)
(* enqueue then starts a pass, which is still running after the step or    *)
(* has ended on the no-capacity signal.                                    *)
PassExits(p) == pass[p].pc # "off" /\ pass'[p].pc = "off"

C31_PassExitClearsGuard ==
  [][/\ \A p \in PassIds :
          PassExits(p) =>
             /\ ~processing'
             /\ \A j \in Queued' :
                   settled'[j] = <<>> /\ (impl # "Legacy" => j \in pending')
     /\ (~processing /\ nextJob' # nextJob) =>
          \/ processing'
          \/ impl = "DO" /\ ~HasCapacity(sessions')]_vars

(* A launch error has ended the pass of the later class: the job is        *)
(* queued, no pass is running, the guard is clear.                         *)
C31_Witness ==
  /\ impl = "DO"
  /\ sessions = <<>> /\ nextSid > 1
  /\ queue # <<>> /\ Head(queue).waited = 0
  /\ ActivePasses = {}
  /\ ~processing

(* C32: the cleanupSession calls of an alarm tick remove a session exactly *)
(* when it is terminating or failed, idle for longer than SESSION_TTL_MS,  *)
(* or has a handle that reports disconnected; every other entry keeps its  *)
(* place, status, handle and last-used time through the tick.  The entry   *)
(* whose close() the tick was awaiting was tested before the await.        *)
Eligible(s) ==
  \/ sessions[s].status \in {"terminating", "failed"}
  \/ sessions[s].status = "idle" /\ sessions[s].idle > SESSION_TTL_MS
  \/ sessions[s].browser = "disconnected"

Visited(s) == alarm.pc = "close" => s \in alarm.ids

StatusChanges ==
  {<<"launching", "idle">>, <<"launching", "busy">>, <<"idle", "busy">>,
   <<"busy", "idle">>, <<"busy", "terminating">>, <<"idle", "terminating">>,
   <<"launching", "failed">>}

C33_SessionLifecycle ==
  [][\A s \in SessionIds :
        /\ (s \notin DOMAIN sessions /\ s \in DOMAIN sessions')
              => sessions'[s].status = "launching"
        /\ (s \in DOMAIN sessions /\ s \in DOMAIN sessions'
              /\ sessions'[s].status # sessions[s].status)
              => <<sessions[s].status, sessions'[s].status>> \in StatusChanges]_vars

(* C34: the queue is ordered by enqueue time, the oldest job at the head,  *)
(* so a stale sweep, which stops at the first fresh head, leaves no stale  *)
(* job at any position: after every step that evicted a job or started a   *)
(* pass, no queued job has waited for longer than the queue timeout.       *)
C34_QueueOrderedByAge ==
  /\ [](\A i \in 1..Len(queue) : \A k \in i..Len(queue) :
           queue[i].waited >= queue[k].waited)
  /\ [][((\E j \in JobIds : Evicted(j)) \/ (~processing /\ processing'))
          => \A i \in 1..Len(queue') : queue'[i].waited <= QueueTimeout]_vars

(* Job 1 was evicted by a sweep; the queue holds an older job before a     *)
(* younger one.                                                            *)
C34_Witness ==
  /\ settled[1] = <<"queueTimeout">>
  /\ Len(queue) = 2
  /\ queue[1].waited > queue[2].waited

(* C35: in ScreenshotQueueManager at most one follow-up timer of           *)
(* processQueue is outstanding at any time.                                *)
C35_OneFollowUpTimer == impl = "QM" => timers <= 1

(* C36: in ScreenshotQueueManager a queued job always has a dispatch       *)
(* attempt ahead of it: while the queue is non-empty a processQueue pass   *)
(* is running or a follow-up timer is pending.                             *)
C36_QueuedJobHasAttemptAhead ==
  (impl = "QM" /\ queue # <<>>) => (processing \/ timers > 0)

(* Job 2 was enqueued while the pass for job 1 was suspended at its await; *)
(* the pass has ended, job 1 runs, and a timer is pending for job 2.       *)
C36_Witness ==
  /\ impl = "QM"
  /\ ~processing /\ timers > 0
  /\ 1 \in InFlight /\ 2 \in Queued

(* C37: in the keep-alive service no job's cleanup closes a connection     *)
(* while another in-flight job that reused it is still working on it: a    *)
(* step that calls close() on a connection leaves no call at its page work *)
(* with usingExistingBrowser on that connection.                           *)
InFlightReuser(k, b) ==
  /\ runner[k].pc = "work"
  /\ runner[k].usingExistingBrowser
  /\ runner[k].sid = b

C37_SharedBrowserNotClosedInUse ==
  [][impl = "KA" =>
       \A b \in DOMAIN sessions :
         (sessions[b].browser = "connected" /\ sessions'[b].browser = "closing")
           => ~\E k \in JobIds : InFlightReuser(k, b) /\ runner'[k].pc = "work"]_vars

(* C38: acquire and release each refresh lastUsed: a step that hands a     *)
(* session to a job, or that returns a busy session to idle, leaves the    *)
(* session's age at zero; the age grows only with the clock; and the alarm *)
(* removes an idle session whose handle is not known to be gone only when  *)
(* its age exceeds SESSION_TTL_MS, so a session acquired or released less  *)
(* than the TTL ago is never reaped as expired.                            *)
Acquired(s) == \E j \in JobIds : runner[j].sid # s /\ runner'[j].sid = s

Released(s) ==
  /\ s \in DOMAIN sessions /\ s \in DOMAIN sessions'
  /\ sessions[s].status = "busy" /\ sessions'[s].status = "idle"

ReapedAsExpired(s) ==
  /\ AlarmStep
  /\ sessions[s].status = "idle"
  /\ sessions[s].browser # "disconnected"
  /\ s \notin DOMAIN sessions'

AgesWithClock(s) ==
  (s \in DOMAIN sessions' /\ sessions'[s].idle > sessions[s].idle) =>
     /\ sessions'[s].idle = sessions[s].idle + 1
     /\ runner' = runner /\ pass' = pass /\ alarm' = alarm

C38_LastUsedRefreshed ==
  [][(impl = "DO") =>
       \A s \in DOMAIN sessions :
         /\ (Acquired(s) /\ s \in DOMAIN sessions') => sessions'[s].idle = 0
         /\ Released(s) => sessions'[s].idle = 0
         /\ AgesWithClock(s)
         /\ ReapedAsExpired(s) => (sessions[s].idle > SESSION_TTL_MS)]_vars

====
